---- MODULE Spec2Model ----
(***************************************************************************)
(* Model of the middleware stack of @smithy/middleware-stack               *)
(* (packages/middleware-stack/src/MiddlewareStack.ts).                     *)
(*                                                                         *)
(* A stack (registry) is a record of the five closure variables of         *)
(* constructStack.  Every operation of the stack is a pure operator from a *)
(* stack value to a result record holding the new stack value and the      *)
(* error thrown (NoError when the call returns), and an action that        *)
(* applies the operator to one of the stacks of the state.                 *)
(***************************************************************************)
EXTENDS Integers, Sequences, FiniteSets, TLC

VARIABLES stacks, ret, held, caught

vars == <<stacks, ret, held, caught>>

----------------------------------------------------------------------------
(* Values *)

\* A property that is not set on an object (JavaScript undefined).
Absent == "undefined"

\* Outcomes of a call: it returns, or it throws one of three errors.
NoError == "none"
DuplicateName == "Duplicate middleware name"
OverrideMismatch == "cannot be overridden"
AnchorNotFound == "is not found when adding"
\* The TypeError of reading a property of undefined.
TypeError == "Cannot read properties of undefined"

stepWeights ==
  [initialize |-> 5, serialize |-> 4, build |-> 3, finalizeRequest |-> 2, deserialize |-> 1]

priorityWeights == [high |-> 3, normal |-> 2, low |-> 1]

\* cachedMiddlewareList is null (NoCache) or holds one list (Cached(list)):
\* an empty list is a present cache, as an empty array is truthy.
NoCache == <<>>
Cached(list) == <<list>>

Range(seq) == {seq[i] : i \in 1..Len(seq)}

\* Array.prototype.splice(index, 1)
splice(seq, index) ==
  [i \in 1..(Len(seq) - 1) |-> IF i < index THEN seq[i] ELSE seq[i + 1]]

\* Array.prototype.filter: the elements of seq whose callback returned true,
\* given as the set keep of the elements kept.
RECURSIVE filter(_, _, _)
filter(seq, keep, i) ==
  IF i > Len(seq) THEN <<>>
  ELSE (IF seq[i] \in keep THEN <<seq[i]>> ELSE <<>>) \o filter(seq, keep, i + 1)

getAllAliases(name, aliases) ==
  (IF name # Absent /\ name # "" THEN <<name>> ELSE <<>>) \o aliases

RECURSIVE join(_, _)
join(aliases, i) ==
  IF i > Len(aliases) THEN ""
  ELSE (IF i > 1 THEN "," ELSE "") \o aliases[i] \o join(aliases, i + 1)

getMiddlewareNameWithAliases(name, aliases) ==
  (IF name # Absent /\ name # "" THEN name ELSE "anonymous")
    \o (IF Len(aliases) > 0 THEN " (a.k.a. " \o join(aliases, 1) \o ")" ELSE "")

\* The state of a stack right after constructStack().
constructStack ==
  [absoluteEntries |-> <<>>,
   relativeEntries |-> <<>>,
   identifyOnResolve |-> FALSE,
   entriesNameSet |-> {},
   cachedMiddlewareList |-> NoCache]

invalidateCache(st) == [st EXCEPT !.cachedMiddlewareList = NoCache]

----------------------------------------------------------------------------
(* Resolver *)

\* compare without its second key.
compareStepOnly(a, b) == stepWeights[b.step] - stepWeights[a.step]

\* The comparator of sort: negative when a goes first, 0 when they tie.
compare(a, b) ==
  LET byStep == stepWeights[b.step] - stepWeights[a.step]
      pa == IF a.priority = Absent THEN "normal" ELSE a.priority
      pb == IF b.priority = Absent THEN "normal" ELSE b.priority
  IN IF byStep # 0 THEN byStep ELSE priorityWeights[pb] - priorityWeights[pa]

\* Array.prototype.sort is stable: an element goes after every element that
\* does not compare greater than it.
RECURSIVE insertSorted(_, _)
insertSorted(sorted, x) ==
  IF sorted = <<>> THEN <<x>>
  ELSE IF compare(sorted[Len(sorted)], x) <= 0 THEN Append(sorted, x)
  ELSE Append(insertSorted(SubSeq(sorted, 1, Len(sorted) - 1), x), sorted[Len(sorted)])

RECURSIVE sortFrom(_, _, _)
sortFrom(entries, i, sorted) ==
  IF i > Len(entries) THEN sorted
  ELSE sortFrom(entries, i + 1, insertSorted(sorted, entries[i]))

sort(entries) == sortFrom(entries, 1, <<>>)

\* holdsAlias looking at the name of the entry only.
holdsName(entry, alias) == alias = entry.name

\* Whether entry holds alias as its name or as one of its aliases.
holdsAlias(entry, alias) == alias \in Range(getAllAliases(entry.name, entry.aliases))

\* normalizedEntriesNameMap is a plain object ({}): a key that no entry has
\* set reads as undefined unless it names a property the object inherits
\* from Object.prototype, which reads as that property.
inheritedNames ==
  {"constructor", "toString", "toLocaleString", "valueOf", "hasOwnProperty",
   "isPrototypeOf", "propertyIsEnumerable"}

\* What normalizedEntriesNameMap[alias] reads when it is an inherited
\* property: an object that is not an entry and has no before or after.
Inherited == -1

\* normalizedEntriesNameMap[alias]: the entries are numbered in the order they
\* are normalized (absolute entries, then relative entries); a later entry
\* holding the same alias overwrites an earlier one.  0 is undefined.
normalizedEntriesNameMap(all, alias) ==
  LET holders == {i \in 1..Len(all) : holdsAlias(all[i], alias)}
  IN IF holders # {} THEN CHOOSE i \in holders : \A j \in holders : j <= i
     ELSE IF alias \in inheritedNames THEN Inherited
     ELSE 0

\* The number of the entry a relative entry is attached to, 0 when its
\* anchor is not found (or it names none).
anchorOf(all, k) ==
  IF all[k].toMiddleware = Absent \/ all[k].toMiddleware = "" THEN 0
  ELSE normalizedEntriesNameMap(all, all[k].toMiddleware)

\* entry.before / entry.after of normalized entry p: the relative entries
\* attached to it, in the order the forEach of lines 174-194 pushed them.
RECURSIVE attached(_, _, _, _, _)
attached(all, nAbs, p, relation, k) ==
  IF k > Len(all) THEN <<>>
  ELSE (IF k > nAbs /\ anchorOf(all, k) = p /\ all[k].relation = relation
        THEN <<k>> ELSE <<>>) \o attached(all, nAbs, p, relation, k + 1)

before(all, nAbs, p) == attached(all, nAbs, p, "before", 1)
after(all, nAbs, p) == attached(all, nAbs, p, "after", 1)

RECURSIVE expandRelativeMiddlewareList(_, _, _)
RECURSIVE expandBefore(_, _, _, _)
RECURSIVE expandAfter(_, _, _, _)

\* expandOne taking every entry for a leaf.
expandOneLeaf(all, nAbs, entry) == <<entry>>

expandOne(all, nAbs, entry) ==
  IF Len(before(all, nAbs, entry)) = 0 /\ Len(after(all, nAbs, entry)) = 0
  THEN <<entry>>
  ELSE expandRelativeMiddlewareList(all, nAbs, entry)

expandBefore(all, nAbs, list, i) ==
  IF i > Len(list) THEN <<>>
  ELSE expandOne(all, nAbs, list[i]) \o expandBefore(all, nAbs, list, i + 1)

\* expandAfter walking the after list in registration order.
expandAfterForward(all, nAbs, list, i) == expandBefore(all, nAbs, list, 1)

expandAfter(all, nAbs, list, i) ==
  IF i < 1 THEN <<>>
  ELSE expandOne(all, nAbs, list[i]) \o expandAfter(all, nAbs, list, i - 1)

expandRelativeMiddlewareList(all, nAbs, from) ==
  expandBefore(all, nAbs, before(all, nAbs, from), 1)
    \o <<from>>
    \o expandAfter(all, nAbs, after(all, nAbs, from), Len(after(all, nAbs, from)))

RECURSIVE flatMapExpand(_, _, _, _)
flatMapExpand(all, nAbs, roots, i) ==
  IF i > Len(roots) THEN <<>>
  ELSE expandRelativeMiddlewareList(all, nAbs, roots[i])
         \o flatMapExpand(all, nAbs, roots, i + 1)

\* normalizedEntry = {...entry, before: [], after: []}: the object identity
\* of a normalized entry is its number id in absoluteEntries \o relativeEntries.
normalize(entry, i) ==
  [f \in DOMAIN entry \cup {"id"} |-> IF f = "id" THEN i ELSE entry[f]]

\* The chain a full computation yields from the entries of st, as the
\* numbers of the entries in absoluteEntries \o relativeEntries.
mainChainIndexes(st) ==
  LET all == st.absoluteEntries \o st.relativeEntries
      nAbs == Len(st.absoluteEntries)
      normalizedAbsoluteEntries == [i \in 1..nAbs |-> normalize(all[i], i)]
      sorted == sort(normalizedAbsoluteEntries)
      roots == [i \in 1..nAbs |-> sorted[i].id]
  IN flatMapExpand(all, nAbs, roots, 1)

\* The entries with the given numbers.
entriesAt(all, indexes) == [i \in 1..Len(indexes) |-> all[indexes[i]]]

mainChain(st) ==
  entriesAt(st.absoluteEntries \o st.relativeEntries, mainChainIndexes(st))

\* Some relative entry names an anchor that no entry holds.
anchorMissing(st) ==
  LET all == st.absoluteEntries \o st.relativeEntries
      nAbs == Len(st.absoluteEntries)
  IN \E k \in (nAbs + 1)..Len(all) :
       /\ all[k].toMiddleware # Absent /\ all[k].toMiddleware # ""
       /\ anchorOf(all, k) = 0

\* What the callback of lines 174-194 throws for relative entry k: an anchor
\* that reads as undefined throws AnchorNotFound unless debug; an anchor
\* that reads as an inherited property has no after or before to push to.
throwsAt(all, k, debug) ==
  IF all[k].toMiddleware = Absent \/ all[k].toMiddleware = "" THEN NoError
  ELSE IF anchorOf(all, k) = 0 THEN (IF debug THEN NoError ELSE AnchorNotFound)
  ELSE IF anchorOf(all, k) = Inherited /\ all[k].relation \in {"before", "after"}
  THEN TypeError
  ELSE NoError

\* What the forEach of lines 174-194 throws: the error of the first
\* relative entry whose callback throws.
attachError(st, debug) ==
  LET all == st.absoluteEntries \o st.relativeEntries
      throwing == {k \in (Len(st.absoluteEntries) + 1)..Len(all) :
                     throwsAt(all, k, debug) # NoError}
  IN IF throwing = {} THEN NoError
     ELSE throwsAt(all, CHOOSE k \in throwing : \A j \in throwing : k <= j, debug)

\* The anchor name in the message of the error of lines 181-185: the
\* toMiddleware of the first relative entry whose anchor reads as undefined.
missingAnchor(st) ==
  LET all == st.absoluteEntries \o st.relativeEntries
      throwing == {k \in (Len(st.absoluteEntries) + 1)..Len(all) :
                     throwsAt(all, k, FALSE) # NoError}
  IN all[CHOOSE k \in throwing : \A j \in throwing : k <= j].toMiddleware

\* Lines 196-201: the chain is computed, cached unless debug, and returned.
computed(st, debug, chain) ==
  [stack |-> IF debug THEN st ELSE [st EXCEPT !.cachedMiddlewareList = Cached(chain)],
   error |-> NoError,
   list |-> chain]

getMiddlewareList(st, debug) ==
  IF ~debug /\ st.cachedMiddlewareList # NoCache
  THEN [stack |-> st, error |-> NoError, list |-> st.cachedMiddlewareList[1]]
  ELSE IF attachError(st, debug) # NoError
  THEN [stack |-> st, error |-> attachError(st, debug), list |-> <<>>]
  ELSE computed(st, debug, mainChain(st))

----------------------------------------------------------------------------
(* Registry *)

\* Array.prototype.findIndex for the predicate of lines 256-258 / 293-295:
\* the first entry that holds alias; 0 stands for -1.
findIndex(entries, alias) ==
  LET found == {i \in 1..Len(entries) : holdsAlias(entries[i], alias)}
  IN IF found = {} THEN 0 ELSE CHOOSE i \in found : \A j \in found : i <= j

someInNameSet(st, aliases) ==
  \E i \in 1..Len(aliases) : aliases[i] \in st.entriesNameSet

\* The override loop of add (lines 255-272): entries is absoluteEntries as
\* the loop has left it so far; a throw keeps the splices already done.
RECURSIVE overrideAbsolute(_, _, _, _)
overrideAbsolute(entries, aliases, i, entry) ==
  IF i > Len(aliases) THEN [entries |-> entries, error |-> NoError]
  ELSE LET toOverrideIndex == findIndex(entries, aliases[i])
       IN IF toOverrideIndex = 0
          THEN overrideAbsolute(entries, aliases, i + 1, entry)
          ELSE IF entries[toOverrideIndex].step # entry.step
                    \/ entry.priority # entries[toOverrideIndex].priority
          THEN [entries |-> entries, error |-> OverrideMismatch]
          ELSE overrideAbsolute(splice(entries, toOverrideIndex), aliases, i + 1, entry)

\* The override loop of addRelativeTo (lines 292-309).
RECURSIVE overrideRelative(_, _, _, _)
overrideRelative(entries, aliases, i, entry) ==
  IF i > Len(aliases) THEN [entries |-> entries, error |-> NoError]
  ELSE LET toOverrideIndex == findIndex(entries, aliases[i])
       IN IF toOverrideIndex = 0
          THEN overrideRelative(entries, aliases, i + 1, entry)
          ELSE IF entries[toOverrideIndex].toMiddleware # entry.toMiddleware
                    \/ entries[toOverrideIndex].relation # entry.relation
          THEN [entries |-> entries, error |-> OverrideMismatch]
          ELSE overrideRelative(splice(entries, toOverrideIndex), aliases, i + 1, entry)

\* { step: "initialize", priority: "normal", middleware, ...options }
absoluteEntry(middleware, options) ==
  [options EXCEPT
     !.step = IF @ = Absent THEN "initialize" ELSE @,
     !.priority = IF @ = Absent THEN "normal" ELSE @,
     !.middleware = IF @ = Absent THEN middleware ELSE @]

\* { middleware, ...options }
relativeEntry(middleware, options) ==
  [options EXCEPT !.middleware = IF @ = Absent THEN middleware ELSE @]

\* Lines 274-279 and 311-316: the names of the new entry join
\* entriesNameSet, the entry is pushed and the cache is invalidated.
pushAbsolute(st, entries, entry, aliases) ==
  invalidateCache([st EXCEPT !.absoluteEntries = Append(entries, entry),
                             !.entriesNameSet = @ \cup Range(aliases)])

pushRelative(st, entries, entry, aliases) ==
  invalidateCache([st EXCEPT !.relativeEntries = Append(entries, entry),
                             !.entriesNameSet = @ \cup Range(aliases)])

\* add once its override loop has ended in loop: a throw leaves
\* absoluteEntries as the loop left it.
addOverridden(st, loop, entry, aliases) ==
  IF loop.error # NoError
  THEN [stack |-> [st EXCEPT !.absoluteEntries = loop.entries], error |-> loop.error]
  ELSE [stack |-> pushAbsolute(st, loop.entries, entry, aliases), error |-> NoError]

addEntry(st, entry, aliases, override) ==
  IF Len(aliases) > 0 /\ someInNameSet(st, aliases)
  THEN IF ~override
       THEN [stack |-> st, error |-> DuplicateName]
       ELSE addOverridden(st, overrideAbsolute(st.absoluteEntries, aliases, 1, entry),
                          entry, aliases)
  ELSE [stack |-> pushAbsolute(st, st.absoluteEntries, entry, aliases), error |-> NoError]

add(st, middleware, options) ==
  addEntry(st, absoluteEntry(middleware, options),
           getAllAliases(options.name, options.aliases), options.override)

addRelativeToOverridden(st, loop, entry, aliases) ==
  IF loop.error # NoError
  THEN [stack |-> [st EXCEPT !.relativeEntries = loop.entries], error |-> loop.error]
  ELSE [stack |-> pushRelative(st, loop.entries, entry, aliases), error |-> NoError]

addRelativeToEntry(st, entry, aliases, override) ==
  IF Len(aliases) > 0 /\ someInNameSet(st, aliases)
  THEN IF ~override
       THEN [stack |-> st, error |-> DuplicateName]
       ELSE addRelativeToOverridden(
              st, overrideRelative(st.relativeEntries, aliases, 1, entry), entry, aliases)
  ELSE [stack |-> pushRelative(st, st.relativeEntries, entry, aliases), error |-> NoError]

addRelativeTo(st, middleware, options) ==
  addRelativeToEntry(st, relativeEntry(middleware, options),
                     getAllAliases(options.name, options.aliases), options.override)

\* The three removals share their shape: both collections are filtered, the
\* names and aliases of every entry filtered out leave entriesNameSet, and
\* the cache is invalidated when some entry was filtered out.
removeWhere(st, matching) ==
  LET all == st.absoluteEntries \o st.relativeEntries
      kept == Range(all) \ matching
      freed == UNION {Range(getAllAliases(entry.name, entry.aliases)) : entry \in matching}
      isRemoved == matching # {}
      filtered == [st EXCEPT !.absoluteEntries = filter(@, kept, 1),
                             !.relativeEntries = filter(@, kept, 1),
                             !.entriesNameSet = @ \ freed]
  IN [stack |-> IF isRemoved THEN invalidateCache(filtered) ELSE filtered,
      isRemoved |-> isRemoved]

entriesOf(st) == Range(st.absoluteEntries \o st.relativeEntries)

\* removeByName matching the primary name of an entry only.
removeByPrimaryName(st, toRemove) ==
  removeWhere(st, {entry \in entriesOf(st) : entry.name = toRemove})

removeByName(st, toRemove) ==
  removeWhere(st, {entry \in entriesOf(st) :
                     toRemove \in Range(getAllAliases(entry.name, entry.aliases))})

removeByReference(st, toRemove) ==
  removeWhere(st, {entry \in entriesOf(st) : entry.middleware = toRemove})

\* removeByTag without lines 335-338: the names stay in entriesNameSet.
removeByTagKeepingNames(st, toRemove) ==
  [stack |-> [removeWhere(st, {entry \in entriesOf(st) : toRemove \in entry.tags}).stack
                EXCEPT !.entriesNameSet = st.entriesNameSet],
   isRemoved |-> \E entry \in entriesOf(st) : toRemove \in entry.tags]

removeByTag(st, toRemove) ==
  removeWhere(st, {entry \in entriesOf(st) : toRemove \in entry.tags})

----------------------------------------------------------------------------
(* Transfer *)

\* The two loops of _addBulk (lines 214-239).  An entry none of whose names
\* is in entriesNameSet is pushed as a copy; any other goes through add or
\* addRelativeTo, whose throw leaves the loop, and _addBulk, at once.
RECURSIVE addBulkAbsolute(_, _, _)
RECURSIVE addBulkRelative(_, _, _)

addBulkAbsoluteNext(full, absEntries, i) ==
  IF full.error # NoError THEN full ELSE addBulkAbsolute(full.stack, absEntries, i + 1)

addBulkAbsoluteOne(st, absEntries, i, entry, aliases) ==
  IF Len(aliases) > 0 /\ someInNameSet(st, aliases)
  THEN addBulkAbsoluteNext(add(st, entry.middleware, entry), absEntries, i)
  ELSE addBulkAbsolute(
         [st EXCEPT !.absoluteEntries = Append(@, entry),
                    !.entriesNameSet = @ \cup Range(aliases)],
         absEntries, i + 1)

addBulkAbsolute(st, absEntries, i) ==
  IF i > Len(absEntries) THEN [stack |-> st, error |-> NoError]
  ELSE addBulkAbsoluteOne(st, absEntries, i, absEntries[i],
                          getAllAliases(absEntries[i].name, absEntries[i].aliases))

addBulkRelativeNext(full, relEntries, i) ==
  IF full.error # NoError THEN full ELSE addBulkRelative(full.stack, relEntries, i + 1)

addBulkRelativeOne(st, relEntries, i, entry, aliases) ==
  IF Len(aliases) > 0 /\ someInNameSet(st, aliases)
  THEN addBulkRelativeNext(addRelativeTo(st, entry.middleware, entry), relEntries, i)
  ELSE addBulkRelative(
         [st EXCEPT !.relativeEntries = Append(@, entry),
                    !.entriesNameSet = @ \cup Range(aliases)],
         relEntries, i + 1)

addBulkRelative(st, relEntries, i) ==
  IF i > Len(relEntries) THEN [stack |-> st, error |-> NoError]
  ELSE addBulkRelativeOne(st, relEntries, i, relEntries[i],
                          getAllAliases(relEntries[i].name, relEntries[i].aliases))

\* Line 240, reached when neither loop threw.
addBulkEnd(rel) ==
  IF rel.error # NoError THEN rel
  ELSE [stack |-> invalidateCache(rel.stack), error |-> NoError]

addBulkSecondLoop(abs, relEntries) ==
  IF abs.error # NoError THEN abs
  ELSE addBulkEnd(addBulkRelative(abs.stack, relEntries, 1))

addBulk(st, absEntries, relEntries) ==
  addBulkSecondLoop(addBulkAbsolute(st, absEntries, 1), relEntries)

\* The else branch of cloneTo (lines 101-108): the public add for every
\* absolute entry, then the public addRelativeTo for every relative entry.
RECURSIVE addEach(_, _, _)
RECURSIVE addRelativeToEach(_, _, _)

addEachNext(one, absEntries, i) ==
  IF one.error # NoError THEN one ELSE addEach(one.stack, absEntries, i + 1)

addEach(st, absEntries, i) ==
  IF i > Len(absEntries) THEN [stack |-> st, error |-> NoError]
  ELSE addEachNext(add(st, absEntries[i].middleware, absEntries[i]), absEntries, i)

addRelativeToEachNext(one, relEntries, i) ==
  IF one.error # NoError THEN one ELSE addRelativeToEach(one.stack, relEntries, i + 1)

addRelativeToEach(st, relEntries, i) ==
  IF i > Len(relEntries) THEN [stack |-> st, error |-> NoError]
  ELSE addRelativeToEachNext(
         addRelativeTo(st, relEntries[i].middleware, relEntries[i]), relEntries, i)

addLoopSecond(abs, relEntries) ==
  IF abs.error # NoError THEN abs ELSE addRelativeToEach(abs.stack, relEntries, 1)

addLoop(st, absEntries, relEntries) ==
  addLoopSecond(addEach(st, absEntries, 1), relEntries)

\* Line 110: identifyOnResolve is copied when the transfer did not throw.
cloneToEnd(from, bulk) ==
  IF bulk.error # NoError THEN bulk
  ELSE [stack |-> [bulk.stack EXCEPT !.identifyOnResolve = from.identifyOnResolve],
        error |-> NoError]

\* cloneTo(toStack) called on stack from: every stack of constructStack has
\* _addBulk, so the bulk branch is the one taken.
cloneTo(from, toStack) ==
  cloneToEnd(from, addBulk(toStack, from.absoluteEntries, from.relativeEntries))

clone(from) == cloneTo(from, constructStack)

\* Lines 355-357: the flag of the result is set when the flag of left, of
\* the result of the transfers or of from is.
concatFlag(left, from, used) ==
  IF used.error # NoError THEN used
  ELSE [stack |-> [used.stack EXCEPT
                     !.identifyOnResolve =
                       left.identifyOnResolve \/ @ \/ from.identifyOnResolve],
        error |-> NoError]

\* concatUse without the transfer of the entries of from.
concatLeftOnly(left, from, cloned) == concatFlag(left, from, cloned)

\* Line 354: cloned.use(from) is from.applyToStack(cloned), the cloneTo of
\* from.
concatUse(left, from, cloned) ==
  IF cloned.error # NoError THEN cloned
  ELSE concatFlag(left, from, cloneTo(from, cloned.stack))

\* left.concat(from): a throw of either transfer leaves concat, and no
\* stack is returned.
concat(left, from) == concatUse(left, from, cloneTo(left, constructStack))

\* identifyOnResolve(toggle) with a boolean toggle
identifyOnResolve(st, toggle) ==
  [stack |-> [st EXCEPT !.identifyOnResolve = toggle], error |-> NoError]

----------------------------------------------------------------------------
(* Composer and inspection *)

identifyOne(mw) ==
  getMiddlewareNameWithAliases(mw.name, mw.aliases) \o " - "
    \o (IF mw.step # Absent THEN mw.step ELSE mw.relation \o " " \o mw.toMiddleware)

\* identify once getMiddlewareList(true) has returned or thrown in got.
identifyWith(got) ==
  [stack |-> got.stack,
   error |-> got.error,
   names |-> [i \in 1..Len(got.list) |-> identifyOne(got.list[i])]]

identify(st) == identifyWith(getMiddlewareList(st, TRUE))

\* A handler is the sequence of the middleware wrapped around the terminal
\* handler, outermost first: middleware(handler) is <<middleware>> \o handler.
\* compose returning a handler that wraps nothing yet and looks the chain
\* of its stack up whenever it is called.
liveHandler == <<"live">>

composeLive(middlewareList, i, handler) == liveHandler

\* compose walking the list from its first entry to its last.
RECURSIVE composeForward(_, _, _)
composeForward(middlewareList, i, handler) ==
  IF i < 1 THEN handler
  ELSE <<middlewareList[i].middleware>> \o composeForward(middlewareList, i - 1, handler)

RECURSIVE compose(_, _, _)
compose(middlewareList, i, handler) ==
  IF i < 1 THEN handler
  ELSE compose(middlewareList, i - 1, <<middlewareList[i].middleware>> \o handler)

\* resolve once getMiddlewareList has returned or thrown in got.
resolveWith(st, got, handler) ==
  IF got.error # NoError
  THEN [stack |-> got.stack, error |-> got.error, list |-> <<>>,
        handler |-> <<>>, log |-> <<>>]
  ELSE [stack |-> got.stack, error |-> NoError, list |-> got.list,
        handler |-> compose(got.list, Len(got.list), handler),
        log |-> IF st.identifyOnResolve THEN identify(got.stack).names ELSE <<>>]

resolve(st, handler) == resolveWith(st, getMiddlewareList(st, FALSE), handler)

----------------------------------------------------------------------------
(* State and actions *)

\* The stacks of the program.
StackIds == {1, 2}

\* The variables of the program holding a stack: the stacks above and the
\* variable that takes the stack concat returns.
StackVariables == StackIds \cup {3}

\* The handler the transport layer passes to resolve.
terminalHandler == <<"terminal">>

\* The options object of add and addRelativeTo; a property left out is Absent.
AbsoluteOptions(name, aliases, step, priority, tags, override) ==
  [name |-> name, aliases |-> aliases, step |-> step, priority |-> priority,
   tags |-> tags, override |-> override,
   toMiddleware |-> Absent, relation |-> Absent, middleware |-> Absent]

RelativeOptions(name, aliases, toMiddleware, relation, tags, override) ==
  [name |-> name, aliases |-> aliases, step |-> Absent, priority |-> Absent,
   tags |-> tags, override |-> override,
   toMiddleware |-> toMiddleware, relation |-> relation, middleware |-> Absent]

NoOptions == AbsoluteOptions(Absent, <<>>, Absent, Absent, {}, FALSE)

size(st) == Len(st.absoluteEntries) + Len(st.relativeEntries)

\* The last call: the operation, the stack it was called on, its arguments
\* (the options with the middleware, the name, tag or middleware to remove,
\* the other stack of a transfer), the error it threw, what it returned and
\* whether the caller kept the handler returned.
Returned(op, on, error) ==
  [op |-> op, on |-> on, error |-> error,
   options |-> NoOptions, toRemove |-> Absent, other |-> 0,
   isRemoved |-> FALSE, list |-> <<>>, handler |-> <<>>, names |-> <<>>,
   kept |-> FALSE]

\* The caller holds no composed handler, or the handler a resolve on stack
\* on returned to it.
NoHandler == [on |-> 0, handler |-> <<>>]

\* The caller is not handling an error, or it caught the AnchorNotFound that
\* a resolve on stack on threw for the anchor name in its message: the
\* resolve was the last call (thrown), or the caller has added an entry
\* holding that name right after it (supplied), or resolve, called right
\* after that, has returned (recovered).
NoCatch == [on |-> 0, anchor |-> Absent, stage |-> "none"]

Init ==
  /\ stacks = [s \in StackVariables |-> constructStack]
  /\ ret = Returned("constructStack", 1, NoError)
  /\ held = NoHandler
  /\ caught = NoCatch

\* Ends with the five variables of constructStack shared by all the stacks.
EndsShared(s, r, call) ==
  /\ stacks' = [t \in StackVariables |-> r.stack]
  /\ ret' = [call EXCEPT !.error = r.error]
  /\ held' = held
  /\ caught' = NoCatch

\* A call on stack s ends with result r: the stack is as the call left it
\* and the call is recorded with its outcome.
Ends(s, r, call) ==
  /\ stacks' = [stacks EXCEPT ![s] = r.stack]
  /\ ret' = [call EXCEPT !.error = r.error]
  /\ held' = held
  /\ caught' = NoCatch

EndsRemoved(s, r, call) ==
  /\ stacks' = [stacks EXCEPT ![s] = r.stack]
  /\ ret' = [call EXCEPT !.isRemoved = r.isRemoved]
  /\ held' = held
  /\ caught' = NoCatch

\* resolve ends with result r; when keep, the caller keeps the handler it
\* returned in place of the one it held.
EndsResolved(s, r, call, keep) ==
  /\ stacks' = [stacks EXCEPT ![s] = r.stack]
  /\ ret' = [call EXCEPT !.error = r.error, !.list = r.list,
                         !.handler = r.handler, !.names = r.log,
                         !.kept = keep /\ r.error = NoError]
  /\ held' = IF keep /\ r.error = NoError THEN [on |-> s, handler |-> r.handler]
             ELSE held
  /\ caught' = NoCatch

EndsIdentified(s, r, call) ==
  /\ stacks' = [stacks EXCEPT ![s] = r.stack]
  /\ ret' = [call EXCEPT !.error = r.error, !.names = r.names]
  /\ held' = held
  /\ caught' = NoCatch

\* The variable to is bound to the new stack when clone returns, and keeps
\* its stack when clone throws.
EndsCloned(to, r, call) ==
  /\ stacks' = IF r.error = NoError THEN [stacks EXCEPT ![to] = r.stack] ELSE stacks
  /\ ret' = [call EXCEPT !.error = r.error]
  /\ held' = held
  /\ caught' = NoCatch

Add(s, middleware, options) ==
  Ends(s, add(stacks[s], middleware, options),
       [Returned("add", s, NoError) EXCEPT
          !.options = [options EXCEPT !.middleware = middleware]])

AddRelativeTo(s, middleware, options) ==
  Ends(s, addRelativeTo(stacks[s], middleware, options),
       [Returned("addRelativeTo", s, NoError) EXCEPT
          !.options = [options EXCEPT !.middleware = middleware]])

\* remove(toRemove) with a string
RemoveByName(s, toRemove) ==
  EndsRemoved(s, removeByName(stacks[s], toRemove),
              [Returned("removeByName", s, NoError) EXCEPT !.toRemove = toRemove])

\* remove(toRemove) with a middleware function
RemoveByReference(s, toRemove) ==
  EndsRemoved(s, removeByReference(stacks[s], toRemove),
              [Returned("removeByReference", s, NoError) EXCEPT !.toRemove = toRemove])

RemoveByTag(s, toRemove) ==
  EndsRemoved(s, removeByTag(stacks[s], toRemove),
              [Returned("removeByTag", s, NoError) EXCEPT !.toRemove = toRemove])

\* stacks[s].resolve(terminalHandler, context), the result dropped
Resolve(s) ==
  EndsResolved(s, resolve(stacks[s], terminalHandler),
               Returned("resolve", s, NoError), FALSE)

\* handler = stacks[s].resolve(terminalHandler, context)
ResolveAndKeep(s) ==
  EndsResolved(s, resolve(stacks[s], terminalHandler),
               Returned("resolve", s, NoError), TRUE)

\* A resolve on stack s ends with result r in a try block: the caller
\* catches an AnchorNotFound and reads the anchor name from its message.
EndsCaught(s, r, call) ==
  /\ stacks' = [stacks EXCEPT ![s] = r.stack]
  /\ ret' = [call EXCEPT !.error = r.error, !.list = r.list,
                         !.handler = r.handler, !.names = r.log]
  /\ held' = held
  /\ caught' = IF r.error = AnchorNotFound
               THEN [on |-> s, anchor |-> missingAnchor(stacks[s]), stage |-> "thrown"]
               ELSE IF caught.on = s /\ caught.stage = "supplied" /\ r.error = NoError
               THEN [caught EXCEPT !.stage = "recovered"]
               ELSE NoCatch

\* An add or addRelativeTo on stack s ends with result r: the caller has
\* supplied the anchor when the call follows the resolve whose error it
\* caught, the options hold the anchor name and the call returned.
EndsSupplied(s, r, call) ==
  /\ stacks' = [stacks EXCEPT ![s] = r.stack]
  /\ ret' = [call EXCEPT !.error = r.error]
  /\ held' = held
  /\ caught' = IF /\ caught.on = s /\ caught.stage = "thrown" /\ r.error = NoError
                  /\ caught.anchor \in Range(getAllAliases(call.options.name,
                                                           call.options.aliases))
               THEN [caught EXCEPT !.stage = "supplied"]
               ELSE NoCatch

\* try { stacks[s].resolve(terminalHandler, context) } catch (e) { ... }
ResolveAndCatch(s) ==
  EndsCaught(s, resolve(stacks[s], terminalHandler), Returned("resolve", s, NoError))

\* add and addRelativeTo by a caller that may be supplying a missing anchor
AddAfterCatch(s, middleware, options) ==
  EndsSupplied(s, add(stacks[s], middleware, options),
               [Returned("add", s, NoError) EXCEPT
                  !.options = [options EXCEPT !.middleware = middleware]])

AddRelativeToAfterCatch(s, middleware, options) ==
  EndsSupplied(s, addRelativeTo(stacks[s], middleware, options),
               [Returned("addRelativeTo", s, NoError) EXCEPT
                  !.options = [options EXCEPT !.middleware = middleware]])

Identify(s) ==
  EndsIdentified(s, identify(stacks[s]), Returned("identify", s, NoError))

\* to = from.clone()
Clone(from, to) ==
  EndsCloned(to, clone(stacks[from]),
             [Returned("clone", from, NoError) EXCEPT !.other = to])

\* to = stacks[left].concat(stacks[from])
Concat(left, from, to) ==
  EndsCloned(to, concat(stacks[left], stacks[from]),
             [Returned("concat", left, NoError) EXCEPT !.other = from])

\* stacks[s].identifyOnResolve(toggle)
IdentifyOnResolve(s, toggle) ==
  Ends(s, identifyOnResolve(stacks[s], toggle), Returned("identifyOnResolve", s, NoError))

\* stacks[s].use(stacks[plugin]), which is stacks[plugin].applyToStack(stacks[s])
Use(s, plugin) ==
  Ends(s, cloneTo(stacks[plugin], stacks[s]),
       [Returned("use", s, NoError) EXCEPT !.other = plugin])

----------------------------------------------------------------------------
(* Spec: the registry and the resolver of one stack.  Names a and b are    *)
(* registered as absolute and as relative entries, with and without an     *)
(* alias and an override request.                                          *)

\* The entries a stack may hold when add or addRelativeTo is called on it.
MaxEntries == 3

Names == {"a", "b"}

AbsoluteInputs ==
  {AbsoluteOptions(na[1], na[2], step, Absent, {}, override) :
     na \in {<<"a", <<>>>>, <<"b", <<>>>>, <<"a", <<"b">>>>},
     step \in {Absent, "serialize"},
     override \in BOOLEAN}

RelativeInputs ==
  {RelativeOptions(name, <<>>, to, relation, {}, override) :
     name \in Names, to \in Names, relation \in {"before", "after"},
     override \in BOOLEAN}

Next ==
  \/ \E o \in AbsoluteInputs : size(stacks[1]) < MaxEntries /\ Add(1, "m1", o)
  \/ \E o \in RelativeInputs : size(stacks[1]) < MaxEntries /\ AddRelativeTo(1, "m1", o)
  \/ \E n \in Names : RemoveByName(1, n)
  \/ Resolve(1)
  \/ Identify(1)

Spec == Init /\ [][Next]_vars

----------------------------------------------------------------------------
(* Properties of the registry *)

allEntries(st) == st.absoluteEntries \o st.relativeEntries

namesOf(entry) == Range(getAllAliases(entry.name, entry.aliases))

isRelative(entry) == entry.toMiddleware # Absent

\* The positions in allEntries(st) of the entries holding one of names.
holders(st, names) ==
  {i \in 1..size(st) : namesOf(allEntries(st)[i]) \cap names # {}}

\* The last call was add or addRelativeTo.
Registered == ret.op \in {"add", "addRelativeTo"}

\* C1: a cached chain, when present, is the chain a full recomputation from
\* the current absolute and relative entries produces.
CacheConsistent ==
  \A s \in StackIds :
    stacks[s].cachedMiddlewareList # NoCache =>
      /\ ~anchorMissing(stacks[s])
      /\ stacks[s].cachedMiddlewareList[1] = mainChain(stacks[s])

\* C2: an add or addRelativeTo call that throws leaves the stack as it was:
\* absolute entries, relative entries, name set and cache.
FailedAddChangesNothing ==
  [][(Registered' /\ ret'.error # NoError) => stacks'[ret'.on] = stacks[ret'.on]]_vars

\* C3: no two distinct entries of a stack, absolute or relative, hold the
\* same name or alias.
NamesUnique ==
  \A s \in StackIds : \A i, j \in 1..size(stacks[s]) :
    i # j => namesOf(allEntries(stacks[s])[i]) \cap namesOf(allEntries(stacks[s])[j]) = {}

\* The positions in the chain of st of the absolute entries named name.
chainPositions(st, name) ==
  {i \in 1..Len(mainChain(st)) :
     mainChain(st)[i].name = name /\ mainChain(st)[i].step # Absent}

\* The last call was add with override, naming exactly one existing entry,
\* an absolute entry of the same name, step and priority, and it returned.
OverrodeInPlace(pre) ==
  /\ ret'.op = "add" /\ ret'.error = NoError /\ ret'.options.override
  /\ ret'.options.name # Absent
  /\ ~anchorMissing(pre)
  /\ \E i \in 1..Len(pre.absoluteEntries) :
       /\ holders(pre, namesOf(ret'.options)) = {i}
       /\ pre.absoluteEntries[i].name = ret'.options.name
       /\ pre.absoluteEntries[i].step = absoluteEntry("m", ret'.options).step
       /\ pre.absoluteEntries[i].priority = absoluteEntry("m", ret'.options).priority

\* C4: an override of an absolute entry with the same name, step and
\* priority puts the new entry at the chain position of the replaced one.
OverrideKeepsPosition ==
  [][OverrodeInPlace(stacks[ret'.on]) =>
       chainPositions(stacks'[ret'.on], ret'.options.name)
         = chainPositions(stacks[ret'.on], ret'.options.name)]_vars

\* Whether the existing entry e has the location of the new entry of the
\* last call: step and priority for add, anchor and relation for
\* addRelativeTo.
sameLocation(e, call) ==
  IF call.op = "add"
  THEN /\ e.step = absoluteEntry("m", call.options).step
       /\ e.priority = absoluteEntry("m", call.options).priority
  ELSE /\ e.toMiddleware = call.options.toMiddleware
       /\ e.relation = call.options.relation

\* C7: add or addRelativeTo with override and a name held by existing entries
\* returns exactly when every such entry has the location of the new entry,
\* and throws OverrideMismatch otherwise; when it returns, the new entry is
\* the only entry left holding one of its names.
OverrideRule ==
  [][LET pre == stacks[ret'.on]
         post == stacks'[ret'.on]
         names == namesOf(ret'.options)
     IN (Registered' /\ ret'.options.override /\ holders(pre, names) # {}) =>
          /\ ret'.error \in {NoError, OverrideMismatch}
          /\ ret'.error = NoError <=>
               \A i \in holders(pre, names) : sameLocation(allEntries(pre)[i], ret')
          /\ ret'.error = NoError =>
               /\ Cardinality(holders(post, names)) = 1
               /\ \A i \in holders(post, names) :
                    allEntries(post)[i] =
                      IF ret'.op = "add"
                      THEN absoluteEntry(ret'.options.middleware, ret'.options)
                      ELSE relativeEntry(ret'.options.middleware, ret'.options)]_vars

\* C8: add or addRelativeTo without override and with a name held by an
\* existing entry throws DuplicateName and leaves the stack as it was.
DuplicateRule ==
  [][(/\ Registered'
      /\ ~ret'.options.override
      /\ holders(stacks[ret'.on], namesOf(ret'.options)) # {}) =>
        /\ ret'.error = DuplicateName
        /\ stacks'[ret'.on] = stacks[ret'.on]]_vars

\* C18: the name set of a stack holds the names and aliases of its current
\* entries, absolute and relative, and nothing else.
NameSetExact ==
  \A s \in StackIds :
    stacks[s].entriesNameSet
      = UNION {namesOf(allEntries(stacks[s])[i]) : i \in 1..size(stacks[s])}

----------------------------------------------------------------------------
(* SpecOrder: absolute entries of every step and priority, registered in   *)
(* any order on one stack and resolved.  The k-th middleware registered    *)
(* is RegistrationOrder[k].                                                *)

RegistrationOrder == <<"m1", "m2", "m3", "m4", "m5", "m6">>

registrationIndex(middleware) ==
  CHOOSE k \in 1..Len(RegistrationOrder) : RegistrationOrder[k] = middleware

\* The middleware the next successful registration on st brings.
nextMiddleware(st) == RegistrationOrder[size(st) + 1]

\* The entries the registrations of SpecOrder may bring a stack to.
MaxOrderEntries == 3

OrderInputs ==
  {AbsoluteOptions(Absent, <<>>, step, priority, {}, FALSE) :
     step \in {Absent} \cup DOMAIN stepWeights,
     priority \in {Absent} \cup DOMAIN priorityWeights}
  \cup {AbsoluteOptions("a", <<>>, "build", Absent, {}, FALSE)}

OrderRelativeInputs ==
  {RelativeOptions(Absent, <<>>, "a", relation, {}, FALSE) :
     relation \in {"before", "after"}}

NextOrder ==
  \/ \E o \in OrderInputs :
       /\ size(stacks[1]) < MaxOrderEntries
       /\ Add(1, nextMiddleware(stacks[1]), o)
  \/ \E o \in OrderRelativeInputs :
       /\ size(stacks[1]) < MaxOrderEntries
       /\ AddRelativeTo(1, nextMiddleware(stacks[1]), o)
  \/ Resolve(1)

SpecOrder == Init /\ [][NextOrder]_vars

\* The last call was a resolve that returned a chain.
Resolved == ret.op = "resolve" /\ ret.error = NoError

\* The positions of the absolute entries in a chain.
absolutePositions(list) == {i \in 1..Len(list) : list[i].toMiddleware = Absent}

\* a goes before b: higher step weight, then higher priority weight, then
\* earlier registration.
goesBefore(a, b) ==
  \/ stepWeights[a.step] > stepWeights[b.step]
  \/ /\ stepWeights[a.step] = stepWeights[b.step]
     /\ priorityWeights[a.priority] > priorityWeights[b.priority]
  \/ /\ stepWeights[a.step] = stepWeights[b.step]
     /\ priorityWeights[a.priority] = priorityWeights[b.priority]
     /\ registrationIndex(a.middleware) < registrationIndex(b.middleware)

\* C5: the absolute entries of a resolved chain are all the absolute entries
\* of the stack, ordered by step weight descending, then priority weight
\* descending, then registration order; an entry registered without step or
\* priority is registered as initialize / normal.
ChainSorted ==
  /\ Resolved =>
       /\ Cardinality(absolutePositions(ret.list)) = Len(stacks[ret.on].absoluteEntries)
       /\ \A i, j \in absolutePositions(ret.list) :
            i < j => goesBefore(ret.list[i], ret.list[j])
  /\ (ret.op = "add" /\ ret.error = NoError) =>
       LET entries == stacks[ret.on].absoluteEntries
           added == entries[Len(entries)]
       IN /\ added.middleware = ret.options.middleware
          /\ added.step = IF ret.options.step = Absent THEN "initialize"
                          ELSE ret.options.step
          /\ added.priority = IF ret.options.priority = Absent THEN "normal"
                              ELSE ret.options.priority

\* A resolved chain of three absolute entries, two of which tie on step and
\* priority while the third differs from them.
ChainSortedWitness ==
  /\ Resolved
  /\ Cardinality(absolutePositions(ret.list)) >= 3
  /\ \E i, j, k \in absolutePositions(ret.list) :
       /\ i < j /\ k # i /\ k # j
       /\ ret.list[i].step = ret.list[j].step
       /\ ret.list[i].priority = ret.list[j].priority
       /\ \/ ret.list[k].step # ret.list[i].step
          \/ ret.list[k].priority # ret.list[i].priority

\* C16: the handler resolve returns wraps the terminal handler in the
\* middleware of every entry of the resolved chain, once each: from the
\* outermost to the innermost it is the chain from first to last, then the
\* terminal handler.
FoldOrder ==
  Resolved =>
    /\ Len(ret.handler) = Len(ret.list) + 1
    /\ \A i \in 1..Len(ret.list) : ret.handler[i] = ret.list[i].middleware
    /\ ret.handler[Len(ret.handler)] = terminalHandler[1]

\* A resolved chain of three entries, a relative one among them, each with
\* a middleware of its own.
FoldOrderWitness ==
  /\ Resolved
  /\ Len(ret.list) = 3
  /\ \E i \in 1..3 : isRelative(ret.list[i])
  /\ Cardinality({ret.list[i].middleware : i \in 1..3}) = 3

----------------------------------------------------------------------------
(* SpecRelative: relative entries x, y, z anchored before or after the     *)
(* absolute entries a, b and one another, registered in any order on one   *)
(* stack and resolved.  No name is registered twice, so the number of      *)
(* entries is bounded by the number of names.                              *)

RelativeAnchorInputs ==
  {RelativeOptions(name, <<>>, to, relation, {}, FALSE) :
     name \in {"x", "y", "z"}, to \in {"a", "x"},
     relation \in {"before", "after"}}

AnchorInputs ==
  {AbsoluteOptions("a", <<>>, Absent, Absent, {}, FALSE),
   AbsoluteOptions("b", <<>>, "serialize", Absent, {}, FALSE)}

NextRelative ==
  \/ \E o \in AnchorInputs :
       /\ o.name \notin stacks[1].entriesNameSet
       /\ Add(1, nextMiddleware(stacks[1]), o)
  \/ \E o \in RelativeAnchorInputs :
       /\ o.name \notin stacks[1].entriesNameSet
       /\ AddRelativeTo(1, nextMiddleware(stacks[1]), o)
  \/ Resolve(1)

SpecRelative == Init /\ [][NextRelative]_vars

\* The position in list of the entry holding name, 0 when there is none.
positionOf(list, name) ==
  IF \E i \in 1..Len(list) : name \in namesOf(list[i])
  THEN CHOOSE i \in 1..Len(list) : name \in namesOf(list[i])
  ELSE 0

\* The position of the anchor of the relative entry at position i.
anchorPosition(list, i) == positionOf(list, list[i].toMiddleware)

\* Whether the entry at position i belongs to the expansion of the entry at
\* position p: it is p, or it is anchored to an entry of the expansion.
RECURSIVE inExpansion(_, _, _, _)
inExpansion(list, i, p, fuel) ==
  \/ i = p
  \/ /\ i # 0 /\ fuel > 0 /\ isRelative(list[i])
     /\ inExpansion(list, anchorPosition(list, i), p, fuel - 1)

expansion(list, p) == {i \in 1..Len(list) : inExpansion(list, i, p, Len(list))}

\* C6: in a resolved chain the expansion of every entry is one block: the
\* blocks of the entries anchored before it in registration order, the entry
\* itself, the blocks of the entries anchored after it in reverse
\* registration order; so between a relative entry and its anchor there are
\* only entries of the anchor's expansion.
ExpansionOrder ==
  Resolved =>
    LET list == ret.list
        relatives == {i \in 1..Len(list) : isRelative(list[i])}
    IN /\ \A p \in 1..Len(list) : \A i, j \in expansion(list, p) :
            \A k \in i..j : k \in expansion(list, p)
       /\ \A i \in relatives :
            /\ anchorPosition(list, i) # 0
            /\ list[i].relation = "before" => i < anchorPosition(list, i)
            /\ list[i].relation = "after" => i > anchorPosition(list, i)
       /\ \A i, j \in relatives :
            (/\ anchorPosition(list, i) = anchorPosition(list, j)
             /\ list[i].relation = list[j].relation
             /\ registrationIndex(list[i].middleware)
                  < registrationIndex(list[j].middleware)) =>
               IF list[i].relation = "before" THEN i < j ELSE i > j

\* A resolved chain with two entries after the same anchor, an entry before
\* an anchor, and a relative entry anchored to a relative entry.
ExpansionOrderWitness ==
  /\ Resolved
  /\ \E i, j, k, n \in 1..Len(ret.list) :
       /\ i # j
       /\ isRelative(ret.list[i]) /\ isRelative(ret.list[j])
       /\ ret.list[i].relation = "after" /\ ret.list[j].relation = "after"
       /\ anchorPosition(ret.list, i) = anchorPosition(ret.list, j)
       /\ isRelative(ret.list[k]) /\ ret.list[k].relation = "before"
       /\ isRelative(ret.list[n])
       /\ isRelative(ret.list[anchorPosition(ret.list, n)])

----------------------------------------------------------------------------
(* SpecTransfer: two stacks; entries named a and b are registered on        *)
(* either, and a stack is cloned into the other variable or applied to the *)
(* other stack.                                                            *)

\* The entries a stack of SpecTransfer may hold when add or addRelativeTo is
\* called on it, and the entries a target and its plugin may hold together
\* when use is called.
MaxTransferEntries == 2
MaxTransferred == 3

TransferAbsoluteInputs ==
  {AbsoluteOptions(name, <<>>, Absent, Absent, {}, override) :
     name \in Names, override \in BOOLEAN}

TransferRelativeInputs ==
  {RelativeOptions("a", <<>>, "b", "after", {}, FALSE)}

NextTransfer ==
  \/ \E s \in StackIds, o \in TransferAbsoluteInputs :
       size(stacks[s]) < MaxTransferEntries /\ Add(s, "m1", o)
  \/ \E s \in StackIds, o \in TransferRelativeInputs :
       size(stacks[s]) < MaxTransferEntries /\ AddRelativeTo(s, "m1", o)
  \/ \E s \in StackIds : Resolve(s)
  \/ \E s, t \in StackIds : s # t /\ Clone(s, t)
  \/ \E s, t \in StackIds :
       /\ s # t
       /\ size(stacks[s]) + size(stacks[t]) <= MaxTransferred
       /\ Use(s, t)

SpecTransfer == Init /\ [][NextTransfer]_vars

\* What a caller can observe of a stack: its entries in order, its name
\* set, and the outcome and chain of its next resolve.
observable(st) ==
  [absoluteEntries |-> st.absoluteEntries,
   relativeEntries |-> st.relativeEntries,
   entriesNameSet |-> st.entriesNameSet,
   resolveError |-> resolve(st, terminalHandler).error,
   resolveList |-> resolve(st, terminalHandler).list]

\* C9: a transfer into a stack, returning or throwing, has the observable
\* result of add for every absolute entry of the source and then
\* addRelativeTo for every relative entry of the source.
BulkEqualsLoop ==
  [][ret'.op = "use" =>
       LET source == stacks[ret'.other]
           loop == addLoop(stacks[ret'.on], source.absoluteEntries, source.relativeEntries)
       IN /\ ret'.error = loop.error
          /\ observable(stacks'[ret'.on]) = observable(loop.stack)]_vars

\* C10: clone returns, and the original and the clone resolve to the same
\* chain.
CloneResolvesAlike ==
  ret.op = "clone" =>
    /\ ret.error = NoError
    /\ resolve(stacks[ret.on], terminalHandler).error
         = resolve(stacks[ret.other], terminalHandler).error
    /\ resolve(stacks[ret.on], terminalHandler).list
         = resolve(stacks[ret.other], terminalHandler).list

----------------------------------------------------------------------------
(* SpecClone: two stacks, each cloned into the other variable and then     *)
(* changed.  A registration on stack s brings the middleware               *)
(* RegistrationOrder[s], so an entry with another middleware came by clone. *)

\* The entries a stack of SpecClone may hold when add or addRelativeTo is
\* called on it.
MaxCloneEntries == 2

CloneAbsoluteInputs ==
  {AbsoluteOptions("a", <<>>, Absent, Absent, {"t"}, override) : override \in BOOLEAN}
  \cup {AbsoluteOptions("b", <<>>, Absent, Absent, {}, FALSE)}

CloneRelativeInputs ==
  {RelativeOptions("c", <<>>, "a", "after", {}, FALSE)}

NextClone ==
  \/ \E s \in StackIds, o \in CloneAbsoluteInputs :
       size(stacks[s]) < MaxCloneEntries /\ Add(s, RegistrationOrder[s], o)
  \/ \E s \in StackIds, o \in CloneRelativeInputs :
       size(stacks[s]) < MaxCloneEntries /\ AddRelativeTo(s, RegistrationOrder[s], o)
  \/ \E s \in StackIds, n \in {"a", "c"} : RemoveByName(s, n)
  \/ \E s \in StackIds : RemoveByTag(s, "t")
  \/ \E s \in StackIds : Resolve(s)
  \/ \E s, t \in StackIds : s # t /\ Clone(s, t)

SpecClone == Init /\ [][NextClone]_vars

----------------------------------------------------------------------------
(* SpecRemove: one stack whose entries, named, aliased, anonymous, tagged  *)
(* or not, carrying one of two middleware, are removed by name, by         *)
(* middleware and by tag.                                                  *)

\* The entries the stack of SpecRemove may hold when add or addRelativeTo is
\* called on it.
MaxRemoveEntries == 2

Middlewares == {"m1", "m2"}

Tags == {"t", "u"}

RemoveAbsoluteInputs ==
  {AbsoluteOptions(na[1], na[2], Absent, Absent, tags, FALSE) :
     na \in {<<Absent, <<>>>>, <<"a", <<>>>>, <<"a", <<"b">>>>},
     tags \in {{}, {"t"}}}
  \cup {AbsoluteOptions("a", <<>>, Absent, Absent, {"t", "u"}, TRUE)}

RemoveRelativeInputs ==
  {RelativeOptions("b", <<>>, "a", "after", {}, FALSE),
   RelativeOptions("b", <<>>, "a", "after", {"t"}, TRUE),
   RelativeOptions("b", <<>>, "b", "after", {}, FALSE)}

NextRemove ==
  \/ \E m \in Middlewares, o \in RemoveAbsoluteInputs :
       size(stacks[1]) < MaxRemoveEntries /\ Add(1, m, o)
  \/ \E m \in Middlewares, o \in RemoveRelativeInputs :
       size(stacks[1]) < MaxRemoveEntries /\ AddRelativeTo(1, m, o)
  \/ \E n \in {"a", "b", "c"} : RemoveByName(1, n)
  \/ \E m \in Middlewares : RemoveByReference(1, m)
  \/ \E t \in Tags : RemoveByTag(1, t)
  \/ Resolve(1)
  \/ Identify(1)

SpecRemove == Init /\ [][NextRemove]_vars

\* The elements of seq at the positions in kept, in their order.
RECURSIVE pick(_, _, _)
pick(seq, kept, i) ==
  IF i > Len(seq) THEN <<>>
  ELSE (IF i \in kept THEN <<seq[i]>> ELSE <<>>) \o pick(seq, kept, i + 1)

\* An options object registering the names of entry without override.
again(entry) ==
  [entry EXCEPT !.override = FALSE, !.middleware = Absent, !.tags = {}]

\* The last call was removeByTag.
RemovedByTag == ret.op = "removeByTag"

\* C12: removeByTag(t) removes the entries whose tags contain t, absolute
\* and relative, and no other; it returns true exactly when it removed an
\* entry; after it every removed entry, and every single name of one, can be
\* registered without override.
RemoveByTagRule ==
  [][RemovedByTag' =>
       LET pre == stacks[ret'.on]
           post == stacks'[ret'.on]
           tagged(entries) == {i \in 1..Len(entries) : ret'.toRemove \in entries[i].tags}
           removed == {pre.absoluteEntries[i] : i \in tagged(pre.absoluteEntries)}
                        \cup {pre.relativeEntries[i] : i \in tagged(pre.relativeEntries)}
       IN /\ post.absoluteEntries =
               pick(pre.absoluteEntries,
                    (1..Len(pre.absoluteEntries)) \ tagged(pre.absoluteEntries), 1)
          /\ post.relativeEntries =
               pick(pre.relativeEntries,
                    (1..Len(pre.relativeEntries)) \ tagged(pre.relativeEntries), 1)
          /\ ret'.isRemoved <=> removed # {}
          /\ \A entry \in removed :
               /\ IF isRelative(entry)
                  THEN addRelativeTo(post, "m1", again(entry)).error = NoError
                  ELSE add(post, "m1", again(entry)).error = NoError
               /\ \A name \in namesOf(entry) :
                    add(post, "m1", AbsoluteOptions(name, <<>>, Absent, Absent, {}, FALSE)).error
                      = NoError]_vars

\* removeByTag returned true and left an entry, which does not carry the
\* tag, on the stack.
RemoveByTagWitness ==
  /\ RemovedByTag /\ ret.isRemoved
  /\ size(stacks[ret.on]) > 0
  /\ stacks[ret.on].entriesNameSet # {}
  /\ \A i \in 1..size(stacks[ret.on]) : ret.toRemove \notin allEntries(stacks[ret.on])[i].tags

\* C13: remove(x) removes the entries, absolute and relative, that hold the
\* name x or whose middleware is x, and no other; it returns true exactly
\* when it removed an entry; the names of the removed entries, and no other
\* name, leave the name set; the cache is invalidated when it returns true;
\* the stack is unchanged when it returns false.
RemoveRule ==
  [][ret'.op \in {"removeByName", "removeByReference"} =>
       LET pre == stacks[ret'.on]
           post == stacks'[ret'.on]
           matches(entry) == IF ret'.op = "removeByName"
                             THEN ret'.toRemove \in namesOf(entry)
                             ELSE entry.middleware = ret'.toRemove
           matching(entries) == {i \in 1..Len(entries) : matches(entries[i])}
           removed == {pre.absoluteEntries[i] : i \in matching(pre.absoluteEntries)}
                        \cup {pre.relativeEntries[i] : i \in matching(pre.relativeEntries)}
       IN /\ post.absoluteEntries =
               pick(pre.absoluteEntries,
                    (1..Len(pre.absoluteEntries)) \ matching(pre.absoluteEntries), 1)
          /\ post.relativeEntries =
               pick(pre.relativeEntries,
                    (1..Len(pre.relativeEntries)) \ matching(pre.relativeEntries), 1)
          /\ ret'.isRemoved <=> removed # {}
          /\ post.entriesNameSet =
               pre.entriesNameSet \ UNION {namesOf(entry) : entry \in removed}
          /\ ret'.isRemoved => post.cachedMiddlewareList = NoCache
          /\ ~ret'.isRemoved => post = pre]_vars

\* remove("b") returned true and left an entry on the stack, or remove of a
\* middleware returned true and left an entry with the other middleware.
RemoveWitness ==
  /\ ret.isRemoved
  /\ size(stacks[ret.on]) > 0
  /\ \/ ret.op = "removeByName" /\ ret.toRemove = "b"
     \/ ret.op = "removeByReference"

----------------------------------------------------------------------------
(* SpecAnchor: one stack with the absolute entries a and b, an override of *)
(* both, and a relative entry c anchored to a, to b, to itself or to the   *)
(* name of an inherited property; entries are removed by name, and the     *)
(* stack is resolved and identified.  A name                               *)
(* is registered again only when it is free or overridden, so the stack    *)
(* holds three entries at most.                                            *)

AnchorAbsoluteInputs ==
  {AbsoluteOptions("a", <<>>, "serialize", Absent, {}, FALSE),
   AbsoluteOptions("b", <<>>, Absent, Absent, {}, FALSE),
   AbsoluteOptions("a", <<"b">>, "serialize", Absent, {}, TRUE)}

AnchorRelativeInputs ==
  {RelativeOptions("c", <<>>, to, relation, {}, FALSE) :
     to \in {"a", "b", "c", "constructor"}, relation \in {"before", "after"}}

NextAnchor ==
  \/ \E o \in AnchorAbsoluteInputs : Add(1, "m1", o)
  \/ \E o \in AnchorRelativeInputs : AddRelativeTo(1, "m1", o)
  \/ \E n \in {"a", "b", "c"} : RemoveByName(1, n)
  \/ Resolve(1)
  \/ Identify(1)

SpecAnchor == Init /\ [][NextAnchor]_vars

\* Some relative entry of st names an anchor that no entry of st holds as
\* its name or as an alias.
dangling(st) ==
  \E i \in 1..Len(st.relativeEntries) :
    holders(st, {st.relativeEntries[i].toMiddleware}) = {}

\* C14: no call but resolve throws AnchorNotFound; addRelativeTo with a name
\* of its own that is free returns whether or not its anchor is held; and
\* resolve throws AnchorNotFound exactly when some relative entry names an
\* anchor that no entry holds, and returns otherwise.
AnchorRule ==
  [][/\ ret'.op # "resolve" => ret'.error # AnchorNotFound
     /\ (/\ ret'.op = "addRelativeTo"
         /\ holders(stacks[ret'.on], namesOf(ret'.options)) = {}
         /\ namesOf(ret'.options) \cap stacks[ret'.on].entriesNameSet = {}) =>
           ret'.error = NoError
     /\ ret'.op = "resolve" =>
          ret'.error = IF dangling(stacks[ret'.on]) THEN AnchorNotFound ELSE NoError]_vars

\* The entries of st that the expansion of some absolute entry reaches: an
\* absolute entry, or a relative entry whose anchor, looked up among all
\* the entries with the last holder of a name winning, is reached.
RECURSIVE reaches(_, _, _)
reaches(st, i, fuel) ==
  \/ i >= 1 /\ i <= Len(st.absoluteEntries)
  \/ /\ i > Len(st.absoluteEntries) /\ fuel > 0
     /\ allEntries(st)[i].relation \in {"before", "after"}
     /\ reaches(st, anchorOf(allEntries(st), i), fuel - 1)

\* The last call was identify.
Identified == ret.op = "identify"

\* C15: identify returns in every state, also when the anchor of a relative
\* entry is held by no entry or an entry is anchored to itself; it leaves
\* entries, name set and cache as they were; and it lists, whatever the
\* cache holds, one line for each entry that the expansion of the current
\* entries reaches.
InspectionSafe ==
  [][Identified' =>
       LET st == stacks[ret'.on]
           listed == {i \in 1..size(st) : reaches(st, i, size(st))}
       IN /\ ret'.error = NoError
          /\ stacks' = stacks
          /\ Len(ret'.names) = Cardinality(listed)
          /\ \A i \in listed :
               \E k \in 1..Len(ret'.names) : ret'.names[k] = identifyOne(allEntries(st)[i])]_vars

----------------------------------------------------------------------------
(* SpecSnapshot: the caller keeps the handler a resolve of stack 1         *)
(* returned, and stack 1 is then changed by add, override, remove,         *)
(* removeByTag and use of stack 2, and resolved again.                     *)

\* The entries stack 1 of SpecSnapshot may hold when add is called on it or
\* use is called with a plugin that holds an entry.
MaxSnapshotEntries == 2

SnapshotInputs ==
  {AbsoluteOptions("a", <<>>, Absent, Absent, {"t"}, override) : override \in BOOLEAN}
  \cup {AbsoluteOptions("b", <<>>, "serialize", Absent, {}, FALSE)}

PluginInputs ==
  {AbsoluteOptions("c", <<>>, Absent, "high", {}, FALSE)}

NextSnapshot ==
  \/ \E m \in Middlewares, o \in SnapshotInputs :
       size(stacks[1]) < MaxSnapshotEntries /\ Add(1, m, o)
  \/ \E o \in PluginInputs : size(stacks[2]) < 1 /\ Add(2, "m3", o)
  \/ RemoveByName(1, "a")
  \/ RemoveByTag(1, "t")
  \/ size(stacks[1]) < MaxSnapshotEntries /\ Use(1, 2)
  \/ Resolve(1)
  \/ ResolveAndKeep(1)

SpecSnapshot == Init /\ [][NextSnapshot]_vars

\* The middleware a handler composed on stack st wraps when it is called,
\* from the outermost to the terminal handler: what it was composed of or,
\* for a handler that looks the chain up when called, the chain of st then.
wrapped(handler, st) ==
  IF handler = liveHandler
  THEN [i \in 1..Len(getMiddlewareList(st, TRUE).list) |->
          getMiddlewareList(st, TRUE).list[i].middleware] \o terminalHandler
  ELSE handler

----------------------------------------------------------------------------
(* SpecCycle: one stack with the absolute entry a and the relative entries *)
(* x, y and z, each anchored to a, to itself, to another relative entry or *)
(* to the name of an inherited property, so that anchors form cycles; the  *)
(* stack is resolved and identified.  No name is registered twice.         *)

CycleInputs ==
  {RelativeOptions(name, <<>>, to, relation, {}, FALSE) :
     name \in {"x", "y", "z"}, to \in {"a", "x", "y", "z", "constructor"},
     relation \in {"before", "after"}}

NextCycle ==
  \/ /\ "a" \notin stacks[1].entriesNameSet
     /\ Add(1, nextMiddleware(stacks[1]),
            AbsoluteOptions("a", <<>>, Absent, Absent, {}, FALSE))
  \/ \E o \in CycleInputs :
       /\ o.name \notin stacks[1].entriesNameSet
       /\ AddRelativeTo(1, nextMiddleware(stacks[1]), o)
  \/ Resolve(1)
  \/ Identify(1)

SpecCycle == Init /\ [][NextCycle]_vars

\* Whether entry i of st is anchored to entry j, directly or through other
\* entries, in at most fuel steps.
RECURSIVE anchoredTo(_, _, _, _)
anchoredTo(st, i, j, fuel) ==
  /\ fuel > 0 /\ i > Len(st.absoluteEntries)
  /\ anchorOf(allEntries(st), i) >= 1
  /\ \/ anchorOf(allEntries(st), i) = j
     \/ anchoredTo(st, anchorOf(allEntries(st), i), j, fuel - 1)

\* The entries of st anchored, directly or transitively, to themselves.
cyclic(st) == {i \in 1..size(st) : anchoredTo(st, i, i, size(st))}

\* The last call was resolve or identify: it returned or threw.
Ended == ret.op \in {"resolve", "identify"}

\* C19 as stated: on a stack where an entry is anchored, directly or
\* transitively, to itself, resolve and identify do not end.
CycleNeverEnds == Ended => cyclic(stacks[ret.on]) = {}

\* C19 amended: on such a stack resolve and identify end, and what they
\* throw is not about the cycle: AnchorNotFound, from resolve alone, or
\* TypeError, for an anchor that no entry holds.  The expansion never
\* reaches an entry anchored to itself: a chain computed then (by identify,
\* or by resolve when the cache is null) holds once each the entries whose
\* anchors lead to an absolute entry, and no other.
CycleLeftOut ==
  [][(Ended' /\ cyclic(stacks[ret'.on]) # {}) =>
       LET st == stacks[ret'.on]
           listed == {i \in 1..size(st) : reaches(st, i, size(st))}
       IN /\ ret'.error \in {NoError, AnchorNotFound, TypeError}
          /\ ret'.error = AnchorNotFound => ret'.op = "resolve"
          /\ ret'.error # NoError => dangling(st)
          /\ listed \cap cyclic(st) = {}
          /\ (/\ ret'.op = "resolve" /\ ret'.error = NoError
              /\ st.cachedMiddlewareList = NoCache) =>
               /\ Len(ret'.list) = Cardinality(listed)
               /\ \A i \in 1..size(st) :
                    i \in listed <=>
                      \E k \in 1..Len(ret'.list) : ret'.list[k] = allEntries(st)[i]
          /\ (ret'.op = "identify" /\ ret'.error = NoError) =>
               /\ Len(ret'.names) = Cardinality(listed)
               /\ \A i \in 1..size(st) :
                    i \in listed <=>
                      \E k \in 1..Len(ret'.names) :
                        ret'.names[k] = identifyOne(allEntries(st)[i])]_vars

\* resolve has returned a chain of two entries on a stack where two more
\* entries are anchored to each other.
CycleLeftOutWitness ==
  /\ ret.op = "resolve" /\ ret.error = NoError
  /\ Len(ret.list) = 2
  /\ \E i, j \in cyclic(stacks[ret.on]) :
       i # j /\ anchorOf(allEntries(stacks[ret.on]), i) = j

\* C20: a chain that resolve returns holds every entry of the stack,
\* absolute and relative, once.
ChainComplete ==
  Resolved =>
    /\ Len(ret.list) = size(stacks[ret.on])
    /\ \A i \in 1..size(stacks[ret.on]) :
         \E k \in 1..Len(ret.list) : ret.list[k] = allEntries(stacks[ret.on])[i]

\* Whether relative entry i of st is left without an anchor: no entry holds
\* the name it is anchored to, or the entry holding it is left without an
\* anchor itself (in at most fuel steps).
RECURSIVE orphaned(_, _, _)
orphaned(st, i, fuel) ==
  /\ i > Len(st.absoluteEntries)
  /\ \/ anchorOf(allEntries(st), i) < 1
     \/ fuel > 0 /\ orphaned(st, anchorOf(allEntries(st), i), fuel - 1)

orphans(st) == {i \in 1..size(st) : orphaned(st, i, size(st))}

\* st with the relative entries at the positions gone taken away, and
\* nothing cached.
without(st, gone) ==
  [st EXCEPT
     !.relativeEntries =
       pick(@, {k \in 1..Len(@) : k + Len(st.absoluteEntries) \notin gone}, 1),
     !.cachedMiddlewareList = NoCache]

\* The lines identify prints for the entries of list.
lines(list) == [i \in 1..Len(list) |-> identifyOne(list[i])]

\* identify ended as call on stack st, where resolve would end as resolved
\* and, with the orphaned entries gone taken away, as pruned.
identifyAgrees(call, gone, resolved, pruned) ==
  /\ resolved.error = NoError =>
       call.error = NoError /\ call.names = lines(resolved.list)
  /\ gone # {} =>
       /\ call.error = NoError
       /\ pruned.error = NoError
       /\ call.names = lines(pruned.list)

\* C21: identify lists the entries in chain order: where a resolve of the
\* same stack would return, the lines of the chain it returns; where the
\* anchor of some relative entry is held by no entry, the lines of the
\* chain resolve returns once that entry and every entry anchored to it,
\* directly or transitively, are taken away.
IdentifyOrder ==
  Identified =>
    identifyAgrees(ret, orphans(stacks[ret.on]),
                   resolve(stacks[ret.on], terminalHandler),
                   resolve(without(stacks[ret.on], orphans(stacks[ret.on])),
                           terminalHandler))

----------------------------------------------------------------------------
(* SpecRecover: one stack with the relative entries x, y and z of          *)
(* SpecCycle and an absolute entry holding the name a, as its name or as   *)
(* an alias; the caller resolves in a try block and goes on registering    *)
(* entries, among them one holding the anchor name of the error it caught. *)
(* No name is registered twice.                                            *)

RecoverAbsoluteInputs ==
  {AbsoluteOptions("a", <<>>, Absent, Absent, {}, FALSE),
   AbsoluteOptions("b", <<"a">>, Absent, Absent, {}, FALSE)}

NextRecover ==
  \/ \E o \in RecoverAbsoluteInputs :
       /\ namesOf(o) \cap stacks[1].entriesNameSet = {}
       /\ AddAfterCatch(1, nextMiddleware(stacks[1]), o)
  \/ \E o \in CycleInputs :
       /\ o.name \notin stacks[1].entriesNameSet
       /\ AddRelativeToAfterCatch(1, nextMiddleware(stacks[1]), o)
  \/ ResolveAndCatch(1)

SpecRecover == Init /\ [][NextRecover]_vars

\* resolve is called right after the caller supplied the anchor of the
\* error it caught.
Retried == caught.stage = "supplied" /\ ret'.op = "resolve" /\ ret'.on = caught.on

\* The entries of st that the error was about: the relative entries
\* anchored to the name anchor, the one that brought the name apart.
formerOrphans(st, anchor) ==
  {i \in 1..size(st) :
     /\ isRelative(allEntries(st)[i])
     /\ allEntries(st)[i].toMiddleware = anchor
     /\ anchor \notin namesOf(allEntries(st)[i])}

\* A resolve that throws AnchorNotFound leaves every stack as it was, with
\* nothing cached on the stack it was called on.
FailedResolveChangesNothing ==
  (ret'.op = "resolve" /\ ret'.error = AnchorNotFound) =>
    /\ stacks' = stacks
    /\ stacks'[ret'.on].cachedMiddlewareList = NoCache

\* Entry is in list right before or right after the entry holding anchor,
\* as its relation says.
nextToAnchor(list, entry, anchor) ==
  \E k \in 1..Len(list) :
    /\ list[k] = entry
    /\ positionOf(list, anchor) # 0
    /\ entry.relation = "before" => k = positionOf(list, anchor) - 1
    /\ entry.relation = "after" => k = positionOf(list, anchor) + 1

\* Entry is in list on the side of the entry holding anchor that its
\* relation says, with entries of the expansion of that entry between them
\* and no other.
besideAnchor(list, entry, anchor) ==
  \E k \in 1..Len(list) :
    /\ list[k] = entry
    /\ positionOf(list, anchor) # 0
    /\ entry.relation = "before" =>
         /\ k < positionOf(list, anchor)
         /\ \A j \in k..positionOf(list, anchor) : j \in expansion(list, positionOf(list, anchor))
    /\ entry.relation = "after" =>
         /\ k > positionOf(list, anchor)
         /\ \A j \in positionOf(list, anchor)..k : j \in expansion(list, positionOf(list, anchor))

\* C22 as stated: a resolve that throws AnchorNotFound changes nothing, and
\* once an entry holding the missing anchor name is added the next resolve
\* returns a chain in which every entry that was anchored to that name is
\* next to the entry holding it.
RecoversNextToAnchor ==
  [][/\ FailedResolveChangesNothing
     /\ Retried =>
          /\ ret'.error = NoError
          /\ \A i \in formerOrphans(stacks[caught.on], caught.anchor) :
               nextToAnchor(ret'.list, allEntries(stacks[caught.on])[i], caught.anchor)]_vars

\* C22 amended: a resolve that throws AnchorNotFound changes nothing; once
\* an entry holding the missing anchor name is added, the next resolve
\* returns exactly when every relative entry names an anchor that some
\* entry holds, and throws AnchorNotFound or TypeError otherwise; the chain
\* it returns holds an entry that was anchored to the missing name exactly
\* when the anchors of the added entry lead to an absolute entry, and then
\* on the side of the added entry that its relation says, with entries of
\* the expansion of the added entry between them and no other.
Recovers ==
  [][/\ FailedResolveChangesNothing
     /\ Retried =>
          LET st == stacks[caught.on]
          IN /\ ret'.error \in {NoError, AnchorNotFound, TypeError}
             /\ ret'.error = NoError <=> ~dangling(st)
             /\ ret'.error = NoError =>
                  \A i \in formerOrphans(st, caught.anchor) :
                    IF reaches(st, i, size(st))
                    THEN besideAnchor(ret'.list, allEntries(st)[i], caught.anchor)
                    ELSE \A k \in 1..Len(ret'.list) : ret'.list[k] # allEntries(st)[i]]_vars

\* The retried resolve returned a chain in which an entry that was anchored
\* to the missing name is apart from the added entry, which holds the name
\* as an alias, by an entry anchored to the first.
RecoversWitness ==
  /\ ret.op = "resolve" /\ ret.error = NoError
  /\ caught.stage = "recovered"
  /\ \E k \in 1..Len(ret.list) :
       /\ isRelative(ret.list[k])
       /\ ret.list[k].toMiddleware = caught.anchor
       /\ positionOf(ret.list, caught.anchor) \notin {0, k - 1, k + 1}
       /\ ret.list[positionOf(ret.list, caught.anchor)].name # caught.anchor

----------------------------------------------------------------------------
(* SpecConcat: stacks 1 and 2 are filled with the entry a and anonymous    *)
(* entries, stack 1 is resolved and flagged, one is concatenated with the  *)
(* other or with itself into variable 3, and the stack in variable 3 has   *)
(* an entry removed in turn.  A registration on stack s brings the         *)
(* middleware RegistrationOrder[s].                                        *)

\* The entries a stack of SpecConcat may hold when add or addRelativeTo is
\* called on it.
MaxConcatEntries == 2

ConcatAbsoluteInputs ==
  {AbsoluteOptions("a", <<>>, "serialize", Absent, {}, FALSE),
   AbsoluteOptions(Absent, <<>>, Absent, Absent, {}, FALSE)}

ConcatRelativeInputs ==
  {RelativeOptions(Absent, <<>>, "a", "before", {}, FALSE)}

NextConcat ==
  \/ \E s \in StackIds, o \in ConcatAbsoluteInputs :
       size(stacks[s]) < MaxConcatEntries /\ Add(s, RegistrationOrder[s], o)
  \/ \E s \in StackIds, o \in ConcatRelativeInputs :
       size(stacks[s]) < MaxConcatEntries /\ AddRelativeTo(s, RegistrationOrder[s], o)
  \/ RemoveByName(3, "a")
  \/ Resolve(1)
  \/ IdentifyOnResolve(1, ~stacks[1].identifyOnResolve)
  \/ \E left, from \in StackIds : Concat(left, from, 3)

SpecConcat == Init /\ [][NextConcat]_vars

\* The last call was concat.
Concatenated == ret.op = "concat"

\* Some name is held by two of the entries of left and from, counting an
\* entry twice when left and from are one stack.
collides(left, from) ==
  LET both == allEntries(left) \o allEntries(from)
  IN \E i, j \in 1..Len(both) : i # j /\ namesOf(both[i]) \cap namesOf(both[j]) # {}

\* The stack holding the entries of left followed by those of from.
joined(left, from) ==
  [absoluteEntries |-> left.absoluteEntries \o from.absoluteEntries,
   relativeEntries |-> left.relativeEntries \o from.relativeEntries,
   entriesNameSet |-> UNION {namesOf(e) : e \in entriesOf(left) \cup entriesOf(from)},
   cachedMiddlewareList |-> NoCache]

\* The entries, name set and cache of st.
contents(st) ==
  [absoluteEntries |-> st.absoluteEntries,
   relativeEntries |-> st.relativeEntries,
   entriesNameSet |-> st.entriesNameSet,
   cachedMiddlewareList |-> st.cachedMiddlewareList]

\* concat leaves the stacks it was called with as they were, and a call on
\* the stack it returned leaves them as they were.
OperandsUntouched ==
  (ret'.op = "concat" \/ ret'.on = 3) => \A s \in StackIds : stacks'[s] = stacks[s]

\* C23 as stated: concat returns a stack with the entries of left followed
\* by those of from, absolute and relative, and leaves left and from as
\* they were, as does every later call on the stack it returned.
ConcatJoins ==
  [][/\ OperandsUntouched
     /\ Concatenated' =>
          /\ ret'.error = NoError
          /\ contents(stacks'[3]) = joined(stacks[ret'.on], stacks[ret'.other])]_vars

\* C23 amended: concat leaves left and from as they were, as does every
\* later call on the stack it returned; it returns the stack with the
\* entries of left followed by those of from when no name is held by two of
\* their entries, and throws, returning no stack, when a name is.
ConcatJoinsDistinct ==
  [][/\ OperandsUntouched
     /\ Concatenated' =>
          IF collides(stacks[ret'.on], stacks[ret'.other])
          THEN ret'.error # NoError /\ stacks'[3] = stacks[3]
          ELSE /\ ret'.error = NoError
               /\ contents(stacks'[3]) = joined(stacks[ret'.on], stacks[ret'.other])]_vars

\* An entry has been removed from the stack that concat returned, which
\* still holds relative entries that came from stack 1 and from stack 2,
\* while stacks 1 and 2 hold an absolute and a relative entry each, and
\* stack 1 a cached chain and the flag.
ConcatJoinsWitness ==
  /\ ret.on = 3 /\ ret.op = "removeByName" /\ ret.isRemoved
  /\ \A s \in StackIds :
       /\ stacks[s].absoluteEntries # <<>> /\ stacks[s].relativeEntries # <<>>
       /\ \E e \in Range(stacks[3].relativeEntries) : e.middleware = RegistrationOrder[s]
  /\ stacks[1].cachedMiddlewareList # NoCache
  /\ stacks[1].identifyOnResolve

====
